---- MODULE Spec2Model ----
(***************************************************************************)
(* Adversarial communication strategy simulator (src/app.js): a            *)
(* transmitter and a jammer, each with a tabular value table over a finite *)
(* action space, stepped by a timer; a bounded history of tick outcomes.   *)
(*                                                                         *)
(* Numbers.  JavaScript numbers are modelled in fixed point: a real x is   *)
(* the integer floor(x * ONE).  Rates (eps, lr), power levels, overlap,    *)
(* rewards, value-table entries and Math.random() draws are all in these   *)
(* units.  NaN (undefined + number) is the value NaN below.                *)
(***************************************************************************)
EXTENDS Integers, Sequences, FiniteSets, TLC

ONE == 10^3

BINS == 48
TX_FREQ_SLOTS == 12
MODS == <<"BPSK", "QPSK", "16QAM">>
MOD_EFF == [m \in {"BPSK", "QPSK", "16QAM"} |->
              IF m = "BPSK" THEN 1 ELSE IF m = "QPSK" THEN 2 ELSE 4]
TX_POWER_LEVELS == <<450, 720, 1000>>
JAM_POWER_LEVELS == <<350, 650, 1000>>
JAM_SPANS == <<2, 4, 8, 12>>
HISTORY_POINTS == 180

\* The value a JavaScript addition yields when an operand is undefined or NaN.
NaN == -(10^9)
\* Math.log10(0) = -Infinity.
NegInfinity == -(10^9) - 1

\* null (state.tx.lastAction before the first tick).
Null == [isNull |-> TRUE]

\* An array is a function on 0 .. length-1.
Length(arr) == Cardinality(DOMAIN arr)
EmptyArray == [i \in {} |-> 0]

Min(a, b) == IF a < b THEN a ELSE b
Max(a, b) == IF a > b THEN a ELSE b
Abs(a) == IF a < 0 THEN -a ELSE a

\* Math.floor(Math.random() * n) for a draw r in [0, ONE).
FloorScale(r, n) == (r * n) \div ONE

(***************************************************************************)
(* Action spaces: the cartesian products in the loops' order (slot outer). *)
(***************************************************************************)
buildActionSpace ==
  [i \in 0 .. (TX_FREQ_SLOTS * Len(MODS) * Len(TX_POWER_LEVELS) - 1) |->
     [fSlot |-> i \div (Len(MODS) * Len(TX_POWER_LEVELS)),
      mod   |-> MODS[((i \div Len(TX_POWER_LEVELS)) % Len(MODS)) + 1],
      p     |-> TX_POWER_LEVELS[(i % Len(TX_POWER_LEVELS)) + 1]]]

buildJamActions ==
  [i \in 0 .. (TX_FREQ_SLOTS * Len(JAM_SPANS) * Len(JAM_POWER_LEVELS) - 1) |->
     [fSlot |-> i \div (Len(JAM_SPANS) * Len(JAM_POWER_LEVELS)),
      span  |-> JAM_SPANS[((i \div Len(JAM_POWER_LEVELS)) % Len(JAM_SPANS)) + 1],
      p     |-> JAM_POWER_LEVELS[(i % Len(JAM_POWER_LEVELS)) + 1]]]

TX_ACTIONS == buildActionSpace
JAM_ACTIONS == buildJamActions

(***************************************************************************)
(* Value tables.                                                           *)
(***************************************************************************)
initQ(size) == [i \in 0 .. (size - 1) |-> 0]

GreaterOrEqual(a, b) == a # NaN /\ b # NaN /\ a >= b

\* arr[i] > arr[best] in JavaScript: false when either side is NaN.
Greater(a, b) == a # NaN /\ b # NaN /\ a > b

\* The loop of argMax over the indices lo .. hi-1, entered with `best`; the
\* range is scanned left to right in two halves, which bounds the depth of
\* the evaluation.
RECURSIVE ArgMaxFrom(_, _, _, _)
ArgMaxFrom(arr, lo, hi, best) ==
  IF lo >= hi THEN best
  ELSE IF hi - lo = 1
       THEN (IF Greater(arr[lo], arr[best]) THEN lo ELSE best)
       ELSE LET mid == (lo + hi) \div 2
                left == ArgMaxFrom(arr, lo, mid, best)
            IN  IF left >= 0 THEN ArgMaxFrom(arr, mid, hi, left) ELSE left

argMax(arr) == ArgMaxFrom(arr, 1, Length(arr), 0)

\* r1, r2: the two Math.random() draws, in [0, ONE).
pickAction(q, eps, r1, r2) ==
  IF r1 < eps THEN FloorScale(r2, Length(q)) ELSE argMax(q)

(***************************************************************************)
(* Channel model.                                                          *)
(***************************************************************************)
mapFreqSlotToBase(slot) == slot * (BINS \div TX_FREQ_SLOTS)

mapFreqSlotToBin(slot) ==
  LET binsPerSlot == BINS \div TX_FREQ_SLOTS
      base == slot * binsPerSlot
  IN  Min(BINS - 1, base + (binsPerSlot \div 2))

computeOverlapPeak(txBin, jamCenter, spanBins) ==
  LET half == spanBins \div 2
      dist == Abs(txBin - jamCenter)
  IN  IF dist > half THEN 0
      ELSE Max(0, ONE - ((dist * ONE) \div (half + 1)))

computeOverlap(txBin, jamCenter, spanBins) ==
  LET half == spanBins \div 2
      start == Max(0, jamCenter - half)
      end == Min(BINS - 1, jamCenter + half)
      dist == Abs(txBin - jamCenter) + 1
  IN  IF txBin < start \/ txBin > end THEN 0
      ELSE Max(0, ONE - ((dist * ONE) \div (half + 1)))

\* Math.pow(10, db / 10), for the whole multiples of 10 dB the inputs take.
dbToLin(db) ==
  IF db >= 0 THEN ONE * (10 ^ (db \div 10)) ELSE ONE \div (10 ^ ((-db) \div 10))

\* log2 of x > 0 (both in units of 1/ONE): the exponent by halving or
\* doubling into [1, 2), then the fraction bit by bit by squaring.
RECURSIVE Log2Frac(_, _)
Log2Frac(y, bit) ==
  IF bit = 0 THEN 0
  ELSE LET y2 == (y * y) \div ONE
       IN  IF y2 >= 2 * ONE THEN bit + Log2Frac(y2 \div 2, bit \div 2)
           ELSE Log2Frac(y2, bit \div 2)

RECURSIVE Log2Norm(_, _)
Log2Norm(x, n) ==
  IF x >= 2 * ONE THEN Log2Norm(x \div 2, n + 1)
  ELSE IF x < ONE THEN Log2Norm(x * 2, n - 1)
  ELSE n * ONE + Log2Frac(x, ONE \div 2)

log2(x) == IF x <= 0 THEN NegInfinity ELSE Log2Norm(x, 0)

\* 10 * Math.log10(x); log2(10) = 3.3219.
linToDb(x) ==
  IF x <= 0 THEN NegInfinity ELSE (10 * log2(x) * 10000) \div 33219

\* The locals of stepSimulation from the two chosen actions on
\* (lines 158-177): the physical outcome and both rewards.
evaluate(txAct, jamAct, cfg) ==
  LET txBin == mapFreqSlotToBin(txAct.fSlot)
      jamCenter == mapFreqSlotToBin(jamAct.fSlot)
      jamSpanBins == Min(jamAct.span, cfg.jamMaxSpan)
      snrLin == dbToLin(cfg.snrDb)
      noisePower == cfg.noiseDensity * cfg.bwMHz
      txPower == (cfg.txMaxPower * txAct.p) \div ONE
      jamPower == (cfg.jamMaxPower * jamAct.p) \div ONE
      overlapFactor == computeOverlap(txBin, jamCenter, jamSpanBins)
      interference == (jamPower * overlapFactor) \div ONE
      signal == ((txPower * snrLin) \div ONE) * MOD_EFF[txAct.mod]
      sinr == (signal * ONE) \div (noisePower + interference + ONE)
      spectralEff == log2(ONE + sinr)
      throughputMbps == cfg.bwMHz * spectralEff
      jammingIntensity ==
        (interference * ONE) \div (interference + noisePower + ONE)
  IN  [txBin |-> txBin, jamCenter |-> jamCenter, jamSpanBins |-> jamSpanBins,
       noisePower |-> noisePower, txPower |-> txPower, jamPower |-> jamPower,
       overlapFactor |-> overlapFactor, interference |-> interference,
       signal |-> signal, sinr |-> sinr,
       throughputMbps |-> throughputMbps,
       jammingIntensity |-> jammingIntensity,
       txReward |-> throughputMbps - ((20 * txPower) \div ONE)
                      - 6 * overlapFactor,
       jamReward |-> ((jammingIntensity * jamPower) \div ONE)
                      - ((80 * throughputMbps) \div ONE)]

(***************************************************************************)
(* State.  t, paused, freezeLearning, jamAdaptive, tx, jam and history are *)
(* the fields of `state`; dom is whether setupDomRefs has filled `dom`.    *)
(* The rest observes the run: lastOp is the operation that produced the    *)
(* state, ticks counts the completed stepSimulation calls since the last   *)
(* resetSimulation, resets tells whether resetSimulation has run never,    *)
(* once or more often (0, 1, 2), thrown is whether the last call ended in  *)
(* a TypeError, step holds the locals of the last completed                *)
(* stepSimulation, probe the last direct call of a pure function.  runs is *)
(* Null unless two runs are being compared; then it holds the settings and *)
(* draws of the ticks since the last resetSimulation (inputs) and an       *)
(* earlier run kept for the comparison (kept).                             *)
(***************************************************************************)
VARIABLES t, paused, freezeLearning, jamAdaptive, tx, jam, history, dom,
          lastOp, ticks, resets, thrown, step, probe, runs

vars == <<t, paused, freezeLearning, jamAdaptive, tx, jam, history, dom,
          lastOp, ticks, resets, thrown, step, probe, runs>>

engine == <<t, paused, freezeLearning, jamAdaptive, tx, jam, history>>

\* Bounds of the model.
MaxTicks == 2
MaxOverflow == 2
MaxLen == 3

\* Math.random() draws, in [0, ONE): those compared with an exploration rate
\* or scaled to a jammer index (0.1 is below the jammer's 0.12 and above the
\* transmitter's 0.08), and those scaled to an index by pickAction.
RandDraws == {100, 999}
IndexDraws == {999}

\* The settings readSettings can return (rates and powers in units of 1/ONE,
\* noiseDensity in 1e-9 mW/Hz, so that noiseDensity * bwMHz is in 1/ONE).
BaseSettings ==
  [snrDb |-> 20, bwMHz |-> 20, noiseDensity |-> 1, jamMaxPower |-> 2000,
   jamMaxSpan |-> 12, txMaxPower |-> 1000, lr |-> 180, eps |-> 0,
   freeze |-> FALSE, jamAdaptive |-> TRUE]

Settings ==
  { [BaseSettings EXCEPT !.freeze = f, !.jamAdaptive = a,
                         !.eps = IF a THEN 500 ELSE 0,
                         !.lr = IF a THEN 500 ELSE 180] :
      f \in BOOLEAN, a \in BOOLEAN }

\* The state object literal (lines 14-24).
state0 ==
  [t |-> 0, paused |-> FALSE, freezeLearning |-> FALSE, jamAdaptive |-> TRUE,
   tx |-> [q |-> EmptyArray, eps |-> 80, lr |-> 180, lastAction |-> Null],
   jam |-> [q |-> EmptyArray, eps |-> 120, lr |-> 140, lastAction |-> Null],
   history |-> << >>]

(***************************************************************************)
(* resetSimulation.  The fields are assigned (lines 104-108) before the    *)
(* status text is touched (line 109), which throws while dom is unfilled.  *)
(***************************************************************************)
resetTKept == t

resetT == 0
resetTxQShort == initQ(Length(TX_ACTIONS) - 1)

resetTxQ == initQ(Length(TX_ACTIONS))
resetJamQ == initQ(Length(JAM_ACTIONS))
resetHistoryKept == history

resetHistory == << >>

resetSimulation ==
  /\ t' = resetT
  /\ tx' = [tx EXCEPT !.q = resetTxQ]
  /\ jam' = [jam EXCEPT !.q = resetJamQ]
  /\ history' = resetHistory
  /\ paused' = FALSE
  /\ thrown' = ~dom
  /\ lastOp' = "reset"
  /\ ticks' = 0
  /\ resets' = Min(resets + 1, 2)
  /\ runs' = IF runs = Null THEN runs ELSE [runs EXCEPT !.inputs = << >>]
  /\ UNCHANGED <<freezeLearning, jamAdaptive, dom, step, probe>>

setupDomRefs ==
  /\ ~dom
  /\ dom' = TRUE
  /\ lastOp' = "setupDomRefs"
  /\ thrown' = FALSE
  /\ UNCHANGED <<engine, ticks, resets, step, probe, runs>>

(***************************************************************************)
(* stepSimulation.                                                         *)
(***************************************************************************)
txEpsStale(frozen, agent) == IF frozen THEN 0 ELSE tx.eps

\* The exploration rates handed to pickAction (lines 151 and 154).
txEpsUsed(frozen, agent) == IF frozen THEN 0 ELSE agent.eps
jamEpsUsed(frozen, agent) == IF frozen THEN 0 ELSE agent.eps

updateQEvery(q, idx, lr, reward) ==
  [i \in DOMAIN q |-> q[i] + ((lr * (reward - q[i])) \div ONE)]

pickJamIdxStillAtZero(adaptive, q, eps, r3, r4) ==
  IF adaptive THEN pickAction(q, eps, r3, r4)
  ELSE IF eps = 0 THEN 0 ELSE FloorScale(r3, Length(JAM_ACTIONS))

\* The jammer's index (lines 153-155).
pickJamIdx(adaptive, q, eps, r3, r4) ==
  IF adaptive THEN pickAction(q, eps, r3, r4)
  ELSE FloorScale(r3, Length(JAM_ACTIONS))

\* q[idx] += lr * (reward - q[idx]); undefined or NaN operands give NaN.
updateQ(q, idx, lr, reward) ==
  [i \in DOMAIN q \cup {idx} |->
     IF i # idx THEN q[i]
     ELSE IF idx \notin DOMAIN q \/ q[idx] = NaN THEN NaN
     ELSE q[idx] + ((lr * (reward - q[idx])) \div ONE)]

learnTxAlways(frozen, agent, idx, reward) ==
  updateQ(agent.q, idx, agent.lr, reward)

learnJamUnlessFrozen(frozen, adaptive, agent, idx, reward) ==
  IF ~frozen THEN updateQ(agent.q, idx, agent.lr, reward) ELSE agent.q

\* Lines 179-184.
learnTx(frozen, agent, idx, reward) ==
  IF ~frozen THEN updateQ(agent.q, idx, agent.lr, reward) ELSE agent.q

learnJam(frozen, adaptive, agent, idx, reward) ==
  IF ~frozen /\ adaptive THEN updateQ(agent.q, idx, agent.lr, reward)
  ELSE agent.q

pushHistoryPop(h, entry) ==
  LET pushed == Append(h, entry)
  IN  IF Len(pushed) > HISTORY_POINTS
      THEN SubSeq(pushed, 1, Len(pushed) - 1) ELSE pushed

\* Lines 189-198.
pushHistory(h, entry) ==
  LET pushed == Append(h, entry)
  IN  IF Len(pushed) > HISTORY_POINTS THEN Tail(pushed) ELSE pushed

nextTSkip(now) == now + 2

\* Line 200.
nextT(now) == now + 1

\* cfg is what readSettings returns; r1..r4 are the Math.random() draws of
\* the two selections, in [0, ONE).
stepSimulation(cfg, r1, r2, r3, r4) ==
  IF ~dom
  THEN \* readSettings dereferences dom.snrInput, which is undefined.
       /\ thrown' = TRUE
       /\ lastOp' = "tick"
       /\ UNCHANGED <<engine, dom, ticks, resets, step, probe, runs>>
  ELSE
    LET tx1 == [tx EXCEPT !.lr = cfg.lr, !.eps = cfg.eps]
        frozen == cfg.freeze
        adaptive == cfg.jamAdaptive
        txEps == txEpsUsed(frozen, tx1)
        jamEps == jamEpsUsed(frozen, jam)
    IN
    \* Each local is bound once, as a const of the function body.
    \E txIdx \in {pickAction(tx.q, txEps, r1, r2)} :
    \E jamIdx \in {pickJamIdx(adaptive, jam.q, jamEps, r3, r4)} :
    \E out \in {evaluate(TX_ACTIONS[txIdx], JAM_ACTIONS[jamIdx], cfg)} :
      LET txAct == TX_ACTIONS[txIdx]
          jamAct == JAM_ACTIONS[jamIdx]
          txLast == [fSlot |-> txAct.fSlot, mod |-> txAct.mod, p |-> txAct.p,
                     txBin |-> out.txBin]
          jamLast == [fSlot |-> jamAct.fSlot, span |-> jamAct.span,
                      p |-> jamAct.p, jamCenter |-> out.jamCenter,
                      spanBins |-> out.jamSpanBins]
      IN  /\ freezeLearning' = frozen
          /\ jamAdaptive' = adaptive
          /\ tx' = [tx1 EXCEPT
                      !.q = learnTx(frozen, tx1, txIdx, out.txReward),
                      !.lastAction = txLast]
          /\ jam' = [jam EXCEPT
                      !.q = learnJam(frozen, adaptive, jam, jamIdx,
                                     out.jamReward),
                      !.lastAction = jamLast]
          /\ history' = pushHistory(history,
               [t |-> t, throughputMbps |-> out.throughputMbps,
                jammingIntensity |-> out.jammingIntensity,
                sinrDb |-> linToDb(out.sinr),
                overlapFactor |-> out.overlapFactor,
                tx |-> txLast, jam |-> jamLast])
          /\ t' = nextT(t)
          /\ step' = [cfg |-> cfg, txIdx |-> txIdx, jamIdx |-> jamIdx,
                      txEps |-> txEps,
                      jamEps |-> IF adaptive THEN jamEps ELSE ONE,
                      txLr |-> tx1.lr, jamLr |-> jam.lr, out |-> out]
          /\ ticks' = ticks + 1
          /\ thrown' = FALSE
          /\ lastOp' = "tick"
          /\ runs' = IF runs = Null THEN runs
                      ELSE [runs EXCEPT !.inputs =
                              Append(@, [cfg |-> cfg, r1 |-> r1, r2 |-> r2,
                                         r3 |-> r3, r4 |-> r4])]
          /\ UNCHANGED <<paused, dom, resets, probe>>

(***************************************************************************)
(* The handlers of attachHandlers.                                         *)
(***************************************************************************)
mutateValueWide(r) == (r - (ONE \div 2)) * 8

\* (Math.random() - 0.5) * 4 (line 391).
mutateValue(r) == (r - (ONE \div 2)) * 4

mutatedQUnlessFrozen(q, draws) ==
  IF freezeLearning THEN q ELSE [i \in DOMAIN q |-> mutateValue(draws[i])]

\* The loop of the mutateBtn click (lines 390-392).
mutatedQ(q, draws) == [i \in DOMAIN q |-> mutateValue(draws[i])]

\* The mutateBtn click: draws(i) is the Math.random() draw of iteration i.
mutateJammer(draws) ==
  /\ jam' = [jam EXCEPT !.q = mutatedQ(jam.q, draws)]
  /\ lastOp' = "mutate"
  /\ thrown' = FALSE
  /\ UNCHANGED <<t, paused, freezeLearning, jamAdaptive, tx, history, dom,
                 ticks, resets, step, probe, runs>>

togglePause ==
  /\ paused' = ~paused
  /\ lastOp' = "pause"
  /\ thrown' = FALSE
  /\ UNCHANGED <<t, freezeLearning, jamAdaptive, tx, jam, history, dom,
                 ticks, resets, step, probe, runs>>

timerFireAlways(cfg, r1, r2, r3, r4) == stepSimulation(cfg, r1, r2, r3, r4)

\* The setInterval callback (lines 402-404); a firing that finds the pause
\* flag set returns at once and is observed as "skip".
timerFire(cfg, r1, r2, r3, r4) ==
  IF ~paused THEN stepSimulation(cfg, r1, r2, r3, r4)
  ELSE /\ lastOp' = "skip"
       /\ thrown' = FALSE
       /\ UNCHANGED <<engine, dom, ticks, resets, step, probe, runs>>

\* The draws of one mutate click: draw i is (b + a * i) mod ONE.
Stream(a, b) == [i \in 0 .. (Length(JAM_ACTIONS) - 1) |-> (b + a * i) % ONE]
Streams == {Stream(0, 999), Stream(7, 300)}

(***************************************************************************)
(* The program as main wires it: setupDomRefs, resetSimulation, then the   *)
(* handlers and the timer.                                                 *)
(***************************************************************************)
Init ==
  /\ t = 0
  /\ paused = FALSE
  /\ freezeLearning = state0.freezeLearning
  /\ jamAdaptive = state0.jamAdaptive
  /\ tx = [state0.tx EXCEPT !.q = resetTxQ]
  /\ jam = [state0.jam EXCEPT !.q = resetJamQ]
  /\ history = << >>
  /\ dom = TRUE
  /\ lastOp = "reset"
  /\ ticks = 0
  /\ resets = 1
  /\ thrown = FALSE
  /\ step = Null
  /\ probe = Null
  /\ runs = Null

Tick ==
  /\ ticks < MaxTicks
  /\ \E cfg \in Settings : \E r1, r3 \in RandDraws : \E r2, r4 \in IndexDraws :
       timerFire(cfg, r1, r2, r3, r4)

Restart == resetSimulation

Mutate == \E draws \in Streams : mutateJammer(draws)

Pause == togglePause

Next == Tick \/ Restart \/ Mutate \/ Pause

Spec == Init /\ [][Next]_vars

(***************************************************************************)
(* A long run: one setting (learning, adaptive jammer) and draws that      *)
(* never explore, so that a run of more than HISTORY_POINTS ticks is one   *)
(* path; restarts at any time, mutations during the first MaxTicks ticks   *)
(* and once the history is full.                                           *)
(***************************************************************************)
LongSettings == {c \in Settings : ~c.freeze /\ c.jamAdaptive}

LongTick ==
  /\ ticks < HISTORY_POINTS + MaxOverflow
  /\ \E cfg \in LongSettings : timerFire(cfg, 999, 999, 999, 999)

LongMutate ==
  /\ ticks <= MaxTicks \/ Len(history) = HISTORY_POINTS
  /\ \E draws \in Streams : mutateJammer(draws)

NextLong == LongTick \/ Restart \/ LongMutate

SpecLong == Init /\ [][NextLong]_vars

(***************************************************************************)
(* The engine's functions called in any order from the state the script    *)
(* leaves when it is loaded (before main has run).                         *)
(***************************************************************************)
InitLoad ==
  /\ t = state0.t
  /\ paused = state0.paused
  /\ freezeLearning = state0.freezeLearning
  /\ jamAdaptive = state0.jamAdaptive
  /\ tx = state0.tx
  /\ jam = state0.jam
  /\ history = state0.history
  /\ dom = FALSE
  /\ lastOp = "load"
  /\ ticks = 0
  /\ resets = 0
  /\ thrown = FALSE
  /\ step = Null
  /\ probe = Null
  /\ runs = Null

CallSetup == setupDomRefs

\* The settings of the direct calls: those above and one with the
\* transmit power input at 0.
EngineSettings == Settings \cup {[BaseSettings EXCEPT !.txMaxPower = 0]}

CallStep ==
  /\ ticks < MaxTicks
  /\ \E cfg \in EngineSettings :
     \E r1, r3 \in RandDraws : \E r2, r4 \in IndexDraws :
       stepSimulation(cfg, r1, r2, r3, r4)

NextEngine == CallSetup \/ CallStep \/ Restart \/ Mutate

SpecEngine == InitLoad /\ [][NextEngine]_vars

(***************************************************************************)
(* The pure functions, each called once on an input of a bounded set.      *)
(***************************************************************************)
\* The spans stepSimulation can pass: min(action span, jamMaxSpan).
Spans == 0 .. 12

\* Value tables of 1 .. MaxLen entries.
SmallValues == {-ONE, 0, ONE}
SmallTables ==
  UNION { [0 .. (n - 1) -> SmallValues] : n \in 1 .. MaxLen }

ProbeOverlap ==
  /\ probe = Null
  /\ \E txBin \in 0 .. (BINS - 1), jamCenter \in 0 .. (BINS - 1),
        spanBins \in Spans :
       probe' = [fn |-> "computeOverlap", txBin |-> txBin,
                 jamCenter |-> jamCenter, spanBins |-> spanBins,
                 result |-> computeOverlap(txBin, jamCenter, spanBins)]
  /\ UNCHANGED <<engine, dom, lastOp, ticks, resets, thrown, step, runs>>

ProbePick ==
  /\ probe = Null
  /\ \E q \in SmallTables, eps \in {0, 500}, r1 \in RandDraws \cup {0},
        r2 \in RandDraws \cup {0} :
       probe' = [fn |-> "pickAction", q |-> q, eps |-> eps, r1 |-> r1,
                 r2 |-> r2, result |-> pickAction(q, eps, r1, r2)]
  /\ UNCHANGED <<engine, dom, lastOp, ticks, resets, thrown, step, runs>>

\* mapFreqSlotToBin called on two slots of the action spaces.
ProbeMap ==
  /\ probe = Null
  /\ \E slot \in 0 .. (TX_FREQ_SLOTS - 1), other \in 0 .. (TX_FREQ_SLOTS - 1) :
       probe' = [fn |-> "mapFreqSlotToBin", slot |-> slot, other |-> other,
                 result |-> mapFreqSlotToBin(slot),
                 otherResult |-> mapFreqSlotToBin(other)]
  /\ UNCHANGED <<engine, dom, lastOp, ticks, resets, thrown, step, runs>>

\* The jammer's selection of stepSimulation on a jammer whose table is q:
\* the table after a reset or after a mutate click, draws every 0.005.
JamTables == {resetJamQ} \cup {[i \in DOMAIN s |-> mutateValue(s[i])] : s \in Streams}
JamDraws == {5 * k : k \in 0 .. ((ONE \div 5) - 1)}

probeJam(adaptive, frozen, q, r3, r4) ==
  /\ probe = Null
  /\ probe' = [fn |-> "jamIdx", adaptive |-> adaptive, frozen |-> frozen,
               q |-> q, r3 |-> r3, r4 |-> r4,
               result |-> pickJamIdx(adaptive, q,
                            jamEpsUsed(frozen, [state0.jam EXCEPT !.q = q]),
                            r3, r4)]
  /\ UNCHANGED <<engine, dom, lastOp, ticks, resets, thrown, step, runs>>

ProbeJam ==
  \E adaptive \in BOOLEAN, frozen \in BOOLEAN, q \in JamTables,
     r3 \in JamDraws, r4 \in IndexDraws :
    probeJam(adaptive, frozen, q, r3, r4)

\* The physics of one tick (lines 158-177) for every pair of actions, under
\* settings whose span limit is any whole number up to the widest span.
EvalSettings == {[BaseSettings EXCEPT !.jamMaxSpan = s] : s \in Spans}

ProbeEvaluate ==
  /\ probe = Null
  /\ \E txIdx \in DOMAIN TX_ACTIONS, jamIdx \in DOMAIN JAM_ACTIONS,
        cfg \in EvalSettings :
       probe' = [fn |-> "evaluate", txAct |-> TX_ACTIONS[txIdx],
                 jamAct |-> JAM_ACTIONS[jamIdx], cfg |-> cfg,
                 result |-> evaluate(TX_ACTIONS[txIdx], JAM_ACTIONS[jamIdx],
                                     cfg)]
  /\ UNCHANGED <<engine, dom, lastOp, ticks, resets, thrown, step, runs>>

NextFn == ProbeOverlap \/ ProbePick \/ ProbeMap \/ ProbeJam

SpecFn == Init /\ [][NextFn]_vars

NextEval == ProbeEvaluate

SpecEval == Init /\ [][NextEval]_vars

(***************************************************************************)
(* Two runs of the program compared: the first runs from the state main    *)
(* leaves (right after its resetSimulation) and is kept; after a restart   *)
(* the ticks of the kept run are fired again, each with the settings and   *)
(* the draws it had, and restarts may interrupt them at any point.         *)
(***************************************************************************)
InitPair ==
  /\ t = 0
  /\ paused = FALSE
  /\ freezeLearning = state0.freezeLearning
  /\ jamAdaptive = state0.jamAdaptive
  /\ tx = [state0.tx EXCEPT !.q = resetTxQ]
  /\ jam = [state0.jam EXCEPT !.q = resetJamQ]
  /\ history = << >>
  /\ dom = TRUE
  /\ lastOp = "reset"
  /\ ticks = 0
  /\ resets = 1
  /\ thrown = FALSE
  /\ step = Null
  /\ probe = Null
  /\ runs = [inputs |-> << >>, kept |-> Null]

FirstTick ==
  /\ runs.kept = Null
  /\ Tick

KeepRun ==
  /\ runs.kept = Null
  /\ lastOp = "tick"
  /\ runs' = [runs EXCEPT !.kept =
               [inputs |-> runs.inputs, t |-> t, txq |-> tx.q,
                jamq |-> jam.q, history |-> history, step |-> step]]
  /\ lastOp' = "keep"
  /\ UNCHANGED <<engine, dom, ticks, resets, thrown, step, probe>>

SecondRestart ==
  /\ runs.kept # Null
  /\ resetSimulation

SameTick ==
  /\ runs.kept # Null
  /\ Len(runs.inputs) < Len(runs.kept.inputs)
  /\ \E i \in {runs.kept.inputs[Len(runs.inputs) + 1]} :
       timerFire(i.cfg, i.r1, i.r2, i.r3, i.r4)

NextPair == FirstTick \/ KeepRun \/ SecondRestart \/ SameTick

SpecPair == InitPair /\ [][NextPair]_vars

(***************************************************************************)
(* Properties.                                                             *)
(***************************************************************************)
IsTick == lastOp' = "tick" /\ ticks' = ticks + 1

\* The lowest index among the entries of q holding its maximum.
LowestMaxIndex(q) ==
  CHOOSE i \in DOMAIN q :
    /\ \A j \in DOMAIN q : q[j] <= q[i]
    /\ \A j \in DOMAIN q : j < i => q[j] < q[i]

(* C1: the history never holds more than HISTORY_POINTS entries; once more *)
(* than HISTORY_POINTS ticks have run since the last reset, say            *)
(* HISTORY_POINTS + k, it holds exactly the HISTORY_POINTS entries with    *)
(* tick values k .. k + HISTORY_POINTS - 1, in ascending order (the k      *)
(* oldest are gone).                                                       *)
C1_HistoryBounded ==
  /\ Len(history) <= HISTORY_POINTS
  /\ ticks > HISTORY_POINTS =>
       /\ Len(history) = HISTORY_POINTS
       /\ \A i \in 1 .. HISTORY_POINTS :
            history[i].t = (ticks - HISTORY_POINTS) + (i - 1)

C1_Witness ==
  /\ ticks = HISTORY_POINTS + 2
  /\ Len(history) = HISTORY_POINTS
  /\ history[1].t = 2
  /\ history[HISTORY_POINTS].t = HISTORY_POINTS + 1
  /\ lastOp = "mutate"

(* C2: every history entry's tick value is one more than that of the entry *)
(* before it, and while the first entry recorded since the last reset is   *)
(* still held, the history starts at tick value 0; resets and mutations    *)
(* may come between the ticks.                                             *)
C2_TickValuesConsecutive ==
  /\ \A i \in 1 .. (Len(history) - 1) : history[i + 1].t = history[i].t + 1
  /\ (Len(history) > 0 /\ ticks <= HISTORY_POINTS) => history[1].t = 0

C2_Witness ==
  /\ resets >= 2
  /\ lastOp = "mutate"
  /\ Len(history) = 2
  /\ history[1].t = 0
  /\ history[2].t = 1

(* C3: a tick whose settings have learning frozen leaves both value tables *)
(* as they were, entry for entry, whatever jamAdaptive and the rates are   *)
(* (so any number of consecutive frozen ticks does).                       *)
C3_FrozenTicksKeepTables ==
  [][(IsTick /\ step'.cfg.freeze) => (tx'.q = tx.q /\ jam'.q = jam.q)]_vars

C3_Witness ==
  /\ step # Null
  /\ lastOp = "tick"
  /\ step.cfg.freeze
  /\ tx.q # resetTxQ
  /\ jam.q # resetJamQ
  /\ step.out.txReward # tx.q[step.txIdx]

(* C4: a tick whose settings have jamAdaptive = false leaves the jammer's  *)
(* value table as it was, whether learning is frozen or not.               *)
C4_NonAdaptiveTicksKeepJamTable ==
  [][(IsTick /\ ~step'.cfg.jamAdaptive) => jam'.q = jam.q]_vars

C4_Witness ==
  /\ step # Null
  /\ lastOp = "tick"
  /\ ~step.cfg.jamAdaptive
  /\ ~step.cfg.freeze
  /\ jam.q # resetJamQ
  /\ step.out.jamReward # jam.q[step.jamIdx]

(* C5: resetSimulation leaves the tick counter at 0, the history empty and *)
(* both value tables at the size of their action space with every entry 0, *)
(* from whatever state it is called in.                                    *)
C5_ResetClears ==
  lastOp = "reset" =>
    /\ t = 0
    /\ history = << >>
    /\ DOMAIN tx.q = DOMAIN TX_ACTIONS
    /\ \A i \in DOMAIN tx.q : tx.q[i] = 0
    /\ DOMAIN jam.q = DOMAIN JAM_ACTIONS
    /\ \A i \in DOMAIN jam.q : jam.q[i] = 0

\* A reset after ticks (step records one) and a second reset at least.
C5_Witness ==
  /\ lastOp = "reset"
  /\ resets >= 2
  /\ step # Null
  /\ ~step.cfg.freeze
  /\ step.cfg.jamAdaptive

(* C6: a stepSimulation call made before any resetSimulation fails fast:   *)
(* it ends in an error and appends no history entry, does not advance the  *)
(* tick counter and writes nothing into a value table.                     *)
C6_TickBeforeResetFailsFast ==
  resets = 0 =>
    /\ lastOp = "tick" => thrown
    /\ ticks = 0
    /\ t = 0
    /\ history = << >>
    /\ tx.q = EmptyArray
    /\ jam.q = EmptyArray

(* C7: computeOverlap(txBin, jamCenter, span) lies in [0, 1], is 1 exactly *)
(* when txBin = jamCenter, and is 0 whenever |txBin - jamCenter| exceeds   *)
(* floor(span / 2).                                                        *)
C7_OverlapPeaksAtOne ==
  (probe # Null /\ probe.fn = "computeOverlap") =>
    /\ 0 <= probe.result /\ probe.result <= ONE
    /\ probe.result = ONE <=> probe.txBin = probe.jamCenter
    /\ Abs(probe.txBin - probe.jamCenter) > probe.spanBins \div 2
         => probe.result = 0

(* C8: pickAction with exploration rate 0 returns, whatever the draws, the *)
(* lowest index among the entries holding the table's maximum (so repeated *)
(* selections over an unchanged table agree).                              *)
C8_GreedyPicksLowestMax ==
  (probe # Null /\ probe.fn = "pickAction" /\ probe.eps = 0) =>
    probe.result = LowestMaxIndex(probe.q)

\* A tie between the last two entries, above the first.
C8_Witness ==
  /\ probe # Null
  /\ probe.fn = "pickAction"
  /\ probe.eps = 0
  /\ probe.r1 = 0
  /\ Length(probe.q) = 3
  /\ probe.q[0] < probe.q[1]
  /\ probe.q[1] = probe.q[2]
  /\ probe.result = 1

(* C9: in a tick with learning not frozen both agents use the rates of the *)
(* tick's settings: each selects with exploration rate cfg.eps and updates *)
(* with cfg.lr (the jammer when jamAdaptive); with learning frozen both    *)
(* select with exploration rate 0.                                         *)
C9_RatesFollowSettings ==
  step # Null =>
    IF step.cfg.freeze
    THEN /\ step.txEps = 0
         /\ step.cfg.jamAdaptive => step.jamEps = 0
    ELSE /\ step.txEps = step.cfg.eps
         /\ step.txLr = step.cfg.lr
         /\ step.cfg.jamAdaptive =>
              (step.jamEps = step.cfg.eps /\ step.jamLr = step.cfg.lr)

(* C10: the mutate click overwrites every entry of the jammer's table,     *)
(* keeping its size, with values in [-2, 2], and a selection with          *)
(* exploration rate 0 made by the tick right after it returns the index of *)
(* the maximum of the new table.                                           *)
C10_MutateThenGreedy ==
  [][/\ lastOp' = "mutate" =>
          /\ DOMAIN jam'.q = DOMAIN jam.q
          /\ \A i \in DOMAIN jam'.q :
               -2 * ONE <= jam'.q[i] /\ jam'.q[i] <= 2 * ONE
     /\ (lastOp = "mutate" /\ IsTick /\ step'.cfg.jamAdaptive
           /\ step'.jamEps = 0) =>
          /\ step'.jamIdx \in DOMAIN jam.q
          /\ \A i \in DOMAIN jam.q : jam.q[i] <= jam.q[step'.jamIdx]
    ]_vars

\* The tick after a mutation whose maximum is at index 99.
C10_Witness ==
  /\ step # Null
  /\ lastOp = "tick"
  /\ step.cfg.jamAdaptive
  /\ step.jamEps = 0
  /\ step.jamIdx = 99
  /\ jam.q[99] = mutateValue(993)
  /\ \A i \in DOMAIN jam.q : jam.q[i] <= jam.q[99]

(* C11: a run that starts with resetSimulation and fires the ticks of an   *)
(* earlier such run, each with the same settings and draws, records the    *)
(* same history entry at every tick and ends with the same tick counter,   *)
(* the same value tables and the same locals of the last tick, whatever    *)
(* the earlier run left in the fields resetSimulation does not assign.     *)
C11_RunsAgree ==
  (runs # Null /\ runs.kept # Null) =>
    LET k == Len(runs.inputs)
        n == Len(runs.kept.inputs)
    IN  (k <= n /\ runs.inputs = SubSeq(runs.kept.inputs, 1, k)) =>
          /\ history = SubSeq(runs.kept.history, 1, k)
          /\ k = n => /\ t = runs.kept.t
                      /\ tx.q = runs.kept.txq
                      /\ jam.q = runs.kept.jamq
                      /\ step = runs.kept.step

\* The second run has fired both ticks of the kept one; the kept run began
\* with the rates of the state literal and ended with those of its second
\* tick, which the second run began with.
C11_Witness ==
  /\ runs # Null
  /\ runs.kept # Null
  /\ lastOp = "tick"
  /\ resets = 2
  /\ Len(runs.inputs) = 2
  /\ runs.inputs = runs.kept.inputs
  /\ ~runs.inputs[1].cfg.freeze
  /\ runs.inputs[1].r1 = 100
  /\ runs.inputs[2].cfg.eps = 500
  /\ tx.q # resetTxQ
  /\ jam.q # resetJamQ

(* C12: in every tick with noise power >= 0 and interference >= 0 the      *)
(* denominator noisePower + interference + 1 of the SINR is at least 1 and *)
(* the sinr computed from it is strictly greater than 0.                   *)
C12_SinrPositive ==
  (step # Null /\ step.out.noisePower >= 0 /\ step.out.interference >= 0) =>
    /\ step.out.noisePower + step.out.interference + ONE >= ONE
    /\ step.out.sinr > 0

(* C13: with BINS = 48 and TX_FREQ_SLOTS = 12, mapFreqSlotToBin maps every *)
(* slot s of 0 .. 11 to bin 4 * s + 2, which is a bin of 0 .. 47, and two  *)
(* different slots to two different bins.                                  *)
C13_SlotToBin ==
  (probe # Null /\ probe.fn = "mapFreqSlotToBin") =>
    /\ BINS = 48 /\ TX_FREQ_SLOTS = 12
    /\ probe.result = 4 * probe.slot + 2
    /\ probe.result \in 0 .. 47
    /\ probe.slot # probe.other => probe.result # probe.otherResult

\* Slot 5 resolves to bin 22 and slot 0 to bin 2.
C13_Witness ==
  /\ probe # Null
  /\ probe.fn = "mapFreqSlotToBin"
  /\ probe.slot = 5
  /\ probe.result = 22
  /\ probe.other = 0
  /\ probe.otherResult = 2

(* C14: a tick with learning not frozen assigns exactly one entry of the   *)
(* transmitter's table, the one at the selected index i, which becomes     *)
(* q[i] + lr * (txReward - q[i]) for the learning rate lr of the settings, *)
(* and every other entry keeps its value; the jammer's table is untouched  *)
(* when jamAdaptive is false and differs at most at the selected jammer    *)
(* index when it is true.                                                  *)
C14_UpdateTouchesOneEntry ==
  [][(IsTick /\ ~step'.cfg.freeze) =>
       LET i == step'.txIdx
           j == step'.jamIdx
       IN  /\ DOMAIN tx'.q = DOMAIN tx.q
           /\ i \in DOMAIN tx.q
           /\ tx'.q[i] = tx.q[i] +
                 ((step'.cfg.lr * (step'.out.txReward - tx.q[i])) \div ONE)
           /\ \A k \in DOMAIN tx.q \ {i} : tx'.q[k] = tx.q[k]
           /\ DOMAIN jam'.q = DOMAIN jam.q
           /\ j \in DOMAIN jam.q
           /\ \A k \in DOMAIN jam.q \ {j} : jam'.q[k] = jam.q[k]
           /\ ~step'.cfg.jamAdaptive => jam'.q = jam.q
    ]_vars

\* The second learning tick: the first changed the transmitter's entry 0,
\* this one explored to entry 107 and changed it and the jammer's entry.
C14_Witness ==
  /\ step # Null
  /\ lastOp = "tick"
  /\ ticks = 2
  /\ ~step.cfg.freeze
  /\ step.cfg.jamAdaptive
  /\ step.txIdx = 107
  /\ tx.q[107] # 0
  /\ tx.q[0] # 0
  /\ jam.q[step.jamIdx] # 0

(* C15: with jamAdaptive false every index of JAM_ACTIONS can be the       *)
(* jammer's choice of a tick (some draw selects it), with learning frozen  *)
(* or not and whatever the jammer's table holds; with jamAdaptive true and *)
(* learning frozen the choice is the lowest index among the maxima of the  *)
(* jammer's table, whatever the draws.                                     *)
C15_JammerChoice ==
  /\ probe = Null =>
       \A frozen \in BOOLEAN, q \in JamTables, j \in DOMAIN JAM_ACTIONS :
         \E r3 \in JamDraws :
           ENABLED (probeJam(FALSE, frozen, q, r3, 999) /\ probe'.result = j)
  /\ (probe # Null /\ probe.fn = "jamIdx" /\ probe.adaptive /\ probe.frozen)
       => probe.result = LowestMaxIndex(probe.q)

\* A frozen, non-adaptive selection over a mutated table whose maximum is
\* at index 99: the draw 0.535 selects index 77.
C15_Witness ==
  /\ probe # Null
  /\ probe.fn = "jamIdx"
  /\ ~probe.adaptive
  /\ probe.frozen
  /\ probe.q # resetJamQ
  /\ LowestMaxIndex(probe.q) = 99
  /\ probe.r3 = 535
  /\ probe.result = 77

(* C16: the mutate click changes nothing but the jammer's value table: the *)
(* tick counter, the history, the transmitter (its table included), the    *)
(* flags and the length of the jammer's table are as before it; and it     *)
(* acts in every state, learning frozen, jamAdaptive false and paused      *)
(* included: it can always be taken, and it leaves the jammer's table      *)
(* holding the values of its draws.                                        *)
C16_MutateFrame ==
  /\ [](\A draws \in Streams : ENABLED mutateJammer(draws))
  /\ [][lastOp' = "mutate" =>
          /\ t' = t
          /\ history' = history
          /\ tx' = tx
          /\ DOMAIN jam'.q = DOMAIN jam.q
          /\ <<paused', freezeLearning', jamAdaptive'>> =
               <<paused, freezeLearning, jamAdaptive>>
          /\ <<jam'.eps, jam'.lr, jam'.lastAction>> =
               <<jam.eps, jam.lr, jam.lastAction>>
          /\ \E draws \in Streams :
               \A i \in DOMAIN jam.q : jam'.q[i] = mutateValue(draws[i])
      ]_vars

\* A mutation made while paused, after a tick with learning frozen and a
\* random jammer that followed a learning tick.
C16_Witness ==
  /\ lastOp = "mutate"
  /\ paused
  /\ freezeLearning
  /\ ~jamAdaptive
  /\ t = 2
  /\ Len(history) = 2
  /\ tx.q # resetTxQ
  /\ jam.q = mutatedQ(resetJamQ, Stream(7, 300))

(* C17: from the first resetSimulation on, under any sequence of ticks,    *)
(* mutate clicks and resets, the transmitter's table has the 108 entries   *)
(* of TX_ACTIONS and the jammer's the 144 of JAM_ACTIONS, and the index    *)
(* each agent selects in a tick (greedy, exploratory or the random         *)
(* jammer's) is an index of its action sequence and of its value table.    *)
C17_TablesAndIndicesValid ==
  /\ [](resets >= 1 =>
          /\ Length(TX_ACTIONS) = 108 /\ Length(JAM_ACTIONS) = 144
          /\ DOMAIN tx.q = 0 .. 107
          /\ DOMAIN jam.q = 0 .. 143)
  /\ [][(IsTick /\ resets >= 1) =>
          /\ step'.txIdx \in DOMAIN TX_ACTIONS \cap DOMAIN tx.q
          /\ step'.jamIdx \in DOMAIN JAM_ACTIONS \cap DOMAIN jam.q
      ]_vars

\* An exploring tick after a second reset and a mutation: both agents
\* selected the last index of their tables.
C17_Witness ==
  /\ resets = 2
  /\ lastOp = "tick"
  /\ step # Null
  /\ step.cfg.jamAdaptive
  /\ ~step.cfg.freeze
  /\ step.txIdx = 107
  /\ step.jamIdx = 143
  /\ \E i \in DOMAIN jam.q \ {143} : jam.q[i] # 0

(* C18: in every state from a resetSimulation on, the tick counter t is    *)
(* the number of ticks completed since the last reset, the history holds   *)
(* min(t, HISTORY_POINTS) entries and, when it holds any, its last entry   *)
(* has tick value t - 1 and its first max(0, t - HISTORY_POINTS).          *)
C18_CounterAndHistoryLength ==
  resets >= 1 =>
    /\ t = ticks
    /\ Len(history) = Min(t, HISTORY_POINTS)
    /\ Len(history) > 0 =>
         /\ history[Len(history)].t = t - 1
         /\ history[1].t = Max(0, t - HISTORY_POINTS)

\* One tick past a full history, in a run started by a restart.
C18_Witness ==
  /\ resets = 2
  /\ lastOp = "tick"
  /\ ticks = HISTORY_POINTS + 1
  /\ t = HISTORY_POINTS + 1
  /\ Len(history) = HISTORY_POINTS
  /\ history[1].t = 1
  /\ history[HISTORY_POINTS].t = HISTORY_POINTS

(* C19: a timer firing runs a tick only when the pause flag is false: a    *)
(* firing while paused leaves the tick counter, both value tables and the  *)
(* history as they were, and no tick happens while paused; a reset always  *)
(* leaves the pause flag false, so the timer firing that follows a restart *)
(* (also one issued while paused) runs a tick.                             *)
C19_TimerRespectsPause ==
  [][/\ paused => ~IsTick
     /\ lastOp' = "skip" =>
          (paused /\ UNCHANGED <<t, tx, jam, history, paused>>)
     /\ lastOp' = "reset" => ~paused'
     /\ (lastOp = "reset" /\ lastOp' \in {"tick", "skip"}) =>
          (IsTick /\ t' = t + 1 /\ Len(history') = Len(history) + 1)
    ]_vars

\* A timer firing found the simulation paused after a learning tick.
C19_Witness ==
  /\ lastOp = "skip"
  /\ paused
  /\ t = 1
  /\ Len(history) = 1
  /\ tx.q # resetTxQ
  /\ jam.q # resetJamQ

(* C20: the overlapFactor of a tick is strictly less than 1: with          *)
(* half = floor(resolvedSpan / 2) for resolvedSpan = min(action span,      *)
(* jamMaxSpan), it is half / (half + 1) (to the model's 1/ONE) when the    *)
(* transmitter's bin is the jammer's centre, 0 when the two bins are half  *)
(* or more apart, and positive for two different frequency slots only when *)
(* the slots are adjacent and resolvedSpan >= 10.                          *)
C20_OverlapBelowOne ==
  (probe # Null /\ probe.fn = "evaluate") =>
    LET o == probe.result
        resolvedSpan == Min(probe.jamAct.span, probe.cfg.jamMaxSpan)
        half == resolvedSpan \div 2
        apart == Abs(o.txBin - o.jamCenter)
    IN  /\ 0 <= o.overlapFactor /\ o.overlapFactor < ONE
        /\ o.jamSpanBins = resolvedSpan
        /\ apart = 0 =>
             /\ half * ONE <= o.overlapFactor * (half + 1)
             /\ o.overlapFactor * (half + 1) < half * ONE + (half + 1)
        /\ apart >= half => o.overlapFactor = 0
        /\ (probe.txAct.fSlot # probe.jamAct.fSlot /\ o.overlapFactor > 0) =>
             /\ Abs(probe.txAct.fSlot - probe.jamAct.fSlot) = 1
             /\ resolvedSpan >= 10

\* Adjacent slots 3 and 4 under a span of 12 limited to 10: overlap 1/6.
C20_Witness ==
  /\ probe # Null
  /\ probe.fn = "evaluate"
  /\ probe.txAct.fSlot = 3
  /\ probe.jamAct.fSlot = 4
  /\ probe.jamAct.span = 12
  /\ probe.cfg.jamMaxSpan = 10
  /\ probe.result.overlapFactor > 0
  /\ probe.result.overlapFactor * 6 <= ONE + 5

====
